---------------------------- MODULE Spec2Model ----------------------------
(***************************************************************************)
(* Model of saturated_vapor_pressure.py: the scalar evaluator              *)
(* vapor_pressure_elementwise and the array wrapper vapor_pressure.        *)
(*                                                                         *)
(* Temperatures are integers in hundredths of a degree Celsius             *)
(* (2000 is 20.00 degC), so temperature_k = temperature_c + 273.15 is the  *)
(* integer temperature_c + 27315 in hundredths of a kelvin.                *)
(*                                                                         *)
(* A returned pressure is a term: the closed-form expression the code      *)
(* evaluates (its shape and its coefficients, as written in the source)    *)
(* together with the temperature it is evaluated at.  Two terms are equal  *)
(* exactly when the code evaluates the same floating-point expression at   *)
(* the same temperature.  The exceptions the arithmetic raises where an    *)
(* operand is exactly zero or a logarithm's argument is not positive are   *)
(* modelled; the OverflowError of exp and ** is not, and Temps lies        *)
(* outside the intervals where the source overflows.                       *)
(***************************************************************************)
EXTENDS Integers, Sequences, FiniteSets, TLC

\* Longest temperature sequence handed to vapor_pressure.
MaxLen == 2

\* Optional[str]: None is the empty tuple, a string s is the 1-tuple <<s>>.
None == <<>>
Some(s) == <<s>>

\* Inputs, in hundredths of a degree Celsius: below and at absolute zero,
\* both sides of the Fukuta limit (-39.00), both sides of freezing (0.00),
\* ordinary temperatures, and both sides of the critical point (373.946 degC).
Temps ==
    {-30000, -27315, -15000, -3901, -3900, -2000, -1, 0, 1, 2000, 10000,
     37300, 40000}

Phases == {"liquid", "ice", "water", "Ice"}

LiquidVocabulary ==
    {"MartiMauersberger", "HylandWexler", "Hardy", "Preining", "Wexler",
     "GoffGratch", "CIMO", "MagnusTetens", "Buck", "Buck2", "WMO", "WMO2000",
     "Sonntag", "Bolton", "Fukuta", "IAPWS", "MurphyKoop", "McIDAS"}

FormulaNames == LiquidVocabulary \cup {"Nonexistent", "goffgratch"}

Formulas == {None} \cup {Some(s) : s \in FormulaNames}

---------------------------------------------------------------------------
\* Outcomes of a call: a returned float, the returned np.nan, or an exception.

Value(term) == [kind |-> "value", val |-> term]
NaN == [kind |-> "nan"]
Raise(exc, msg) == [kind |-> "raise", exc |-> exc, msg |-> msg]

ZeroDivision == Raise("ZeroDivisionError", <<"float division by zero">>)
ZeroToNegativePower ==
    Raise("ZeroDivisionError", <<"0.0 cannot be raised to a negative power">>)
MathDomain == Raise("ValueError", <<"math domain error">>)

temperature_k(temperature_c) == temperature_c + 27315

\* An expression in temperature_k that first divides by temperature_k (or by
\* a power of it) and later takes math.log / math.log10 of a quantity whose
\* sign is that of temperature_k.
KelvinExpr(temperature_c, zero, term) ==
    IF temperature_k(temperature_c) = 0 THEN zero
    ELSE IF temperature_k(temperature_c) < 0 THEN MathDomain
    ELSE Value(term)

\* An expression in temperature_c whose only division is by (offset + temperature_c).
CelsiusExpr(temperature_c, offset, term) ==
    IF offset + temperature_c = 0 THEN ZeroDivision ELSE Value(term)

---------------------------------------------------------------------------
\* Saturation pressure over liquid water: the expression of each branch.

liquid_HylandWexler(temperature_c) ==
    KelvinExpr(temperature_c, ZeroDivision,
        [shape |-> "exp(c1/Tk + c2 + c3*Tk + c4*Tk**2 + c5*Tk**3 + c6*log(Tk)) / 100",
         coef |-> <<"-0.58002206e4", "0.13914993e1", "-0.48640239e-1",
                    "0.41764768e-4", "-0.14452093e-7", "0.65459673e1">>,
         temperature_c |-> temperature_c])

liquid_Hardy(temperature_c) ==
    KelvinExpr(temperature_c, ZeroDivision,
        [shape |-> "exp(c1/Tk**2 + c2/Tk + c3 + c4*Tk + c5*Tk**2 + c6*Tk**3 + c7*Tk**4 + c8*log(Tk)) / 100",
         coef |-> <<"-2.8365744e3", "-6.028076559e3", "1.954263612e1",
                    "-2.737830188e-2", "1.6261698e-5", "7.0229056e-10",
                    "-1.8680009e-13", "2.7150305">>,
         temperature_c |-> temperature_c])

liquid_Preining(temperature_c) ==
    KelvinExpr(temperature_c, ZeroDivision,
        [shape |-> "exp(c1/Tk + c2 + c3*Tk + c4*log(Tk)) / 100",
         coef |-> <<"-7235.424651", "77.34491296", "5.7113e-3", "-8.2">>,
         temperature_c |-> temperature_c])

liquid_Wexler(temperature_c) ==
    KelvinExpr(temperature_c, ZeroToNegativePower,
        [shape |-> "exp(c1*Tk**-2 + c2*Tk**-1 + c3*Tk**0 + c4*Tk**1 + c5*Tk**2 + c6*Tk**3 + c7*Tk**4 + c8*log(Tk)) / 100",
         coef |-> <<"-0.29912729e4", "-0.60170128e4", "0.1887643854e2",
                    "-0.28354721e-1", "0.17838301e-4", "-0.84150417e-9",
                    "0.44412543e-12", "2.858487">>,
         temperature_c |-> temperature_c])

liquid_GoffGratch(temperature_c) ==
    KelvinExpr(temperature_c, ZeroDivision,
        [shape |-> "10**(c1*(Ts/Tk - 1) + c2*log10(Ts/Tk) + c3*(10**(c4*(1 - Tk/Ts)) - 1) + c5*(10**(c6*(Ts/Tk - 1)) - 1) + log10(ews))",
         coef |-> <<"-7.90298", "5.02808", "-1.3816e-7", "11.344",
                    "8.1328e-3", "-3.49149", "Ts=373.16", "ews=1013.246">>,
         temperature_c |-> temperature_c])

liquid_CIMO(temperature_c) ==
    CelsiusExpr(temperature_c, 24312,
        [shape |-> "c1 * exp(c2*Tc / (c3 + Tc))",
         coef |-> <<"6.112", "17.62", "243.12">>,
         temperature_c |-> temperature_c])

\* The divisor temperature_k - 35.86 is not zero in binary floating point at
\* any temperature_c with two decimals, so no ZeroDivisionError arises.
liquid_MagnusTetens(temperature_c) ==
    Value([shape |-> "c1 * exp(c2*(Tk - Tt) / (Tk - c3))",
           coef |-> <<"6.1078", "17.269388", "35.86", "Tt=273.16">>,
           temperature_c |-> temperature_c])

liquid_Buck(temperature_c) ==
    CelsiusExpr(temperature_c, 24097,
        [shape |-> "c1 * exp(c2*Tc / (c3 + Tc))",
         coef |-> <<"6.1121", "17.502", "240.97">>,
         temperature_c |-> temperature_c])

liquid_Buck2(temperature_c) ==
    CelsiusExpr(temperature_c, 25714,
        [shape |-> "c1 * exp((c2 - Tc/c3) * Tc / (c4 + Tc))",
         coef |-> <<"6.1121", "18.678", "234.5", "257.14">>,
         temperature_c |-> temperature_c])

liquid_WMO(temperature_c) ==
    KelvinExpr(temperature_c, ZeroDivision,
        [shape |-> "10**(c1*(1 - Tt/Tk) + c2*log10(Tk/Tt) + c3*(1 - 10**(c4*(Tk/Tt - 1))) + c5*(10**(c6*(1 - Tt/Tk)) - 1) + c7)",
         coef |-> <<"10.79574", "-5.02800", "1.50475e-4", "-8.2969",
                    "0.42873e-3", "+4.76955", "0.78614", "Tt=273.16">>,
         temperature_c |-> temperature_c])

liquid_WMO2000(temperature_c) ==
    KelvinExpr(temperature_c, ZeroDivision,
        [shape |-> "10**(c1*(1 - Tt/Tk) + c2*log10(Tk/Tt) + c3*(1 - 10**(c4*(Tk/Tt - 1))) + c5*(10**(c6*(1 - Tt/Tk)) - 1) + c7)",
         coef |-> <<"10.79574", "-5.02800", "1.50475e-4", "-8.2969",
                    "0.42873e-3", "-4.76955", "0.78614", "Tt=273.16">>,
         temperature_c |-> temperature_c])

liquid_Sonntag(temperature_c) ==
    KelvinExpr(temperature_c, ZeroToNegativePower,
        [shape |-> "exp(c1*Tk**-1 + c2 + c3*Tk**1 + c4*Tk**2 + c5*log(Tk))",
         coef |-> <<"-6096.9385", "16.635794", "-2.711193e-2",
                    "1.673952e-5", "2.433502">>,
         temperature_c |-> temperature_c])

liquid_Bolton(temperature_c) ==
    CelsiusExpr(temperature_c, 24350,
        [shape |-> "c1 * exp(c2*Tc / (Tc + c3))",
         coef |-> <<"6.112", "17.67", "243.5">>,
         temperature_c |-> temperature_c])

fukuta_below_range_inclusive(temperature_c) == temperature_c <= -3900

\* temperature_c < -39.0
fukuta_below_range(temperature_c) == temperature_c < -3900

\* The correction polynomial in x = temperature_c + 19 applied to the
\* Goff-Gratch pressure; an exception of the nested call propagates.
liquid_Fukuta_correction(temperature_c, pressure_saturation_goff_gratch) ==
    IF pressure_saturation_goff_gratch.kind # "value"
    THEN pressure_saturation_goff_gratch
    ELSE Value([shape |-> "p * (c1 + c2*x + c3*x**2 + c4*x**3 + c5*x**4 + c6*x**5)",
                coef |-> <<"0.9992", "7.113e-4", "-1.847e-4", "1.189e-5",
                           "1.130e-7", "-1.743e-8">>,
                x |-> temperature_c + 1900,
                p |-> pressure_saturation_goff_gratch.val])

\* nu = 1 - temperature_k / 647.096 is negative above the critical point;
\* nu ** 1.5 is then a complex number, which math.exp rejects.
liquid_IAPWS(temperature_c) ==
    IF temperature_k(temperature_c) = 0 THEN ZeroDivision
    ELSE IF temperature_k(temperature_c) * 10 > 647096
    THEN Raise("TypeError", <<"must be real number, not complex">>)
    ELSE Value([shape |-> "pc * exp(Tcr/Tk * (a1*nu + a2*nu**1.5 + a3*nu**3 + a4*nu**3.5 + a5*nu**4 + a6*nu**7.5)), nu = 1 - Tk/Tcr",
                coef |-> <<"-7.85951783", "1.84408259", "-11.7866497",
                           "22.6807411", "-15.9618719", "1.80122502",
                           "Tcr=647.096", "pc=22.064*1e4">>,
                temperature_c |-> temperature_c])

liquid_MurphyKoop(temperature_c) ==
    KelvinExpr(temperature_c, ZeroDivision,
        [shape |-> "exp(c1 + c2/Tk + c3*log(Tk) + c4*Tk + tanh(c5*(Tk - c6)) * (c7 + c8/Tk + c9*log(Tk) + c10*Tk)) / 100",
         coef |-> <<"54.842763", "-6763.22", "-4.210", "0.000367", "0.0415",
                    "218.8", "53.878", "-1331.22", "-9.44523", "0.014025">>,
         temperature_c |-> temperature_c])

liquid_McIDAS(temperature_c) ==
    Value([shape |-> "B / S**8, S = A0 + Tc*(A1 + Tc*(A2 + Tc*(A3 + Tc*(A4 + Tc*(A5 + Tc*(A6 + Tc*(A7 + Tc*(A8 + Tc*A9))))))))",
           coef |-> <<"0.999996876e0", "-0.9082695004e-2", "0.7873616869e-4",
                      "-0.6111795727e-6", "0.4388418740e-8",
                      "-0.2988388486e-10", "0.2187442495e-12",
                      "-0.1789232111e-14", "0.1111201803e-16",
                      "-0.3099457145e-19", "B=0.61078e1">>,
           temperature_c |-> temperature_c])

---------------------------------------------------------------------------
\* Saturation pressure over ice.

ice_uses_water_formula_strict(temperature_c) == temperature_c < 0

\* temperature_c <= 0: the test that sends an ice call to the liquid-water
\* expression of Hyland and Wexler.
ice_uses_water_formula(temperature_c) == temperature_c <= 0

\* The expression returned when ice_uses_water_formula holds.
ice_HylandWexler_water(temperature_c) ==
    KelvinExpr(temperature_c, ZeroDivision,
        [shape |-> "exp(c1/Tk + c2 + c3*Tk + c4*Tk**2 + c5*Tk**3 + c6*log(Tk)) / 100",
         coef |-> <<"-0.58002206e4", "0.13914993e1", "-0.48640239e-1",
                    "0.41764768e-4", "-0.14452093e-7", "0.65459673e1">>,
         temperature_c |-> temperature_c])

ice_MartiMauersberger(temperature_c) ==
    KelvinExpr(temperature_c, ZeroDivision,
        [shape |-> "10**(c1/Tk + c2) / 100",
         coef |-> <<"-2663.5", "12.537">>,
         temperature_c |-> temperature_c])

ice_HylandWexler(temperature_c) ==
    KelvinExpr(temperature_c, ZeroDivision,
        [shape |-> "exp(c1/Tk + c2 + c3*Tk + c4*Tk**2 + c5*Tk**3 + c6*Tk**4 + c7*log(Tk)) / 100",
         coef |-> <<"-0.56745359e4", "0.63925247e1", "-0.96778430e-2",
                    "0.62215701e-6", "0.20747825e-8", "-0.94840240e-12",
                    "0.41635019e1">>,
         temperature_c |-> temperature_c])

ice_Wexler(temperature_c) ==
    KelvinExpr(temperature_c, ZeroToNegativePower,
        [shape |-> "exp(c1*Tk**-1 + c2 + c3*Tk**1 + c4*Tk**2 + c5*Tk**3 + c6*log(Tk)) / 100",
         coef |-> <<"-0.58653696e4", "0.2224103300e2", "0.13749042e-1",
                    "-0.34031775e-4", "0.26967687e-7", "0.6918651">>,
         temperature_c |-> temperature_c])

ice_Hardy(temperature_c) ==
    KelvinExpr(temperature_c, ZeroToNegativePower,
        [shape |-> "exp(c1*Tk**-1 + c2 + c3*Tk**1 + c4*Tk**2 + c5*Tk**3 + c6*log(Tk)) / 100",
         coef |-> <<"-0.58666426e4", "0.2232870244e2", "0.139387003e-1",
                    "-0.34262402e-4", "0.27040955e-7", "0.67063522e-1">>,
         temperature_c |-> temperature_c])

ice_GoffGratch(temperature_c) ==
    KelvinExpr(temperature_c, ZeroDivision,
        [shape |-> "10**(c1*(Tt/Tk - 1) + c2*log10(Tt/Tk) + c3*(1 - Tk/Tt) + log10(ei0))",
         coef |-> <<"-9.09718", "-3.56654", "0.876793", "Tt=273.16",
                    "ei0=6.1071">>,
         temperature_c |-> temperature_c])

\* Reached only with temperature_c > 0 (or its negation under a changed test);
\* the divisor temperature_k - 7.66 is not zero in binary floating point at
\* any temperature_c with two decimals.
ice_MagnusTetens(temperature_c) ==
    Value([shape |-> "c1 * exp(c2*(Tk - Tt) / (Tk - c3))",
           coef |-> <<"6.1078", "21.8745584", "7.66", "Tt=273.16">>,
           temperature_c |-> temperature_c])

ice_Buck(temperature_c) ==
    CelsiusExpr(temperature_c, 27255,
        [shape |-> "c1 * exp(c2*Tc / (c3 + Tc))",
         coef |-> <<"6.1115", "22.452", "272.55">>,
         temperature_c |-> temperature_c])

ice_Buck2(temperature_c) ==
    CelsiusExpr(temperature_c, 27982,
        [shape |-> "c1 * exp((c2 - Tc/c3) * Tc / (c4 + Tc))",
         coef |-> <<"6.1115", "23.036", "333.7", "279.82">>,
         temperature_c |-> temperature_c])

ice_CIMO(temperature_c) ==
    CelsiusExpr(temperature_c, 27262,
        [shape |-> "c1 * exp(c2*Tc / (c3 + Tc))",
         coef |-> <<"6.112", "22.46", "272.62">>,
         temperature_c |-> temperature_c])

ice_WMO(temperature_c) ==
    KelvinExpr(temperature_c, ZeroDivision,
        [shape |-> "10**(c1*(Tt/Tk - 1) + c2*log10(Tt/Tk) + c3*(1 - Tk/Tt) + c4)",
         coef |-> <<"-9.09685", "-3.56654", "0.87682", "0.78614",
                    "Tt=273.16">>,
         temperature_c |-> temperature_c])

ice_Sonntag(temperature_c) ==
    KelvinExpr(temperature_c, ZeroToNegativePower,
        [shape |-> "exp(c1*Tk**-1 + c2 + c3*Tk**1 + c4*Tk**2 + c5*log(Tk))",
         coef |-> <<"-6024.5282", "24.721994", "1.0613868e-2",
                    "-1.3198825e-5", "-0.49382577">>,
         temperature_c |-> temperature_c])

ice_MurphyKoop(temperature_c) ==
    KelvinExpr(temperature_c, ZeroDivision,
        [shape |-> "exp(c1 + c2/Tk + c3*log(Tk) + c4*Tk) / 100",
         coef |-> <<"9.550426", "-5723.265", "3.53068", "-0.00728332">>,
         temperature_c |-> temperature_c])

ice_McIDAS(temperature_c) ==
    Value([shape |-> "10**E, E = A0 + Tc*(A1 + Tc*(A2 + Tc*(A3 + Tc*(A4 + Tc*A5))))",
           coef |-> <<"0.7859063157e0", "0.3579242320e-1", "-0.1292820828e-3",
                      "0.5937519208e-6", "0.4482949133e-9",
                      "0.2176664827e-10">>,
           temperature_c |-> temperature_c])

---------------------------------------------------------------------------
\* vapor_pressure_elementwise: argument resolution and dispatch.

liquid_default_GoffGratch(formula) ==
    IF formula = None THEN Some("GoffGratch") ELSE formula

\* if formula is None: formula = "HylandWexler"
liquid_default(formula) == IF formula = None THEN Some("HylandWexler") ELSE formula

MartiMauersberger_liquid_target_default == None
MartiMauersberger_liquid_target_Fukuta == Some("Fukuta")

\* The formula the liquid "MartiMauersberger" branch passes to the nested call.
MartiMauersberger_liquid_target == Some("GoffGratch")

liquid_unknown_unnamed(formula) ==
    Raise("ValueError",
          <<"Unknown formula for saturation pressure over liquid water surface: ">>)

\* The else branch of the liquid dispatch.
liquid_unknown(formula) ==
    Raise("ValueError",
          <<"Unknown formula for saturation pressure over liquid water surface: ",
            formula[1]>>)

\* The three reassignments of formula at the head of the ice dispatch.
ice_default(formula) == IF formula = None THEN Some("GoffGratch") ELSE formula
ice_WMO2000(formula) == IF formula = Some("WMO2000") THEN Some("WMO") ELSE formula
ice_IAPWS_as_HylandWexler(formula) ==
    IF formula = Some("IAPWS") THEN Some("HylandWexler") ELSE formula
ice_IAPWS(formula) == IF formula = Some("IAPWS") THEN Some("GoffGratch") ELSE formula
ice_resolve(formula) == ice_IAPWS(ice_WMO2000(ice_default(formula)))

\* The else branch of the ice dispatch.
ice_unknown(formula) ==
    Raise("ValueError",
          <<"Unknown formula for saturation pressure over ice surface: ",
            formula[1]>>)

ice_dispatch(temperature_c, formula) ==
    CASE formula = Some("MartiMauersberger") -> ice_MartiMauersberger(temperature_c)
      [] formula = Some("HylandWexler") -> ice_HylandWexler(temperature_c)
      [] formula = Some("Wexler") -> ice_Wexler(temperature_c)
      [] formula = Some("Hardy") -> ice_Hardy(temperature_c)
      [] formula = Some("GoffGratch") -> ice_GoffGratch(temperature_c)
      [] formula = Some("MagnusTetens") -> ice_MagnusTetens(temperature_c)
      [] formula = Some("Buck") -> ice_Buck(temperature_c)
      [] formula = Some("Buck2") -> ice_Buck2(temperature_c)
      [] formula = Some("CIMO") -> ice_CIMO(temperature_c)
      [] formula = Some("WMO") -> ice_WMO(temperature_c)
      [] formula = Some("Sonntag") -> ice_Sonntag(temperature_c)
      [] formula = Some("MurphyKoop") -> ice_MurphyKoop(temperature_c)
      [] formula = Some("McIDAS") -> ice_McIDAS(temperature_c)
      [] OTHER -> ice_unknown(formula)

\* The else branch of the phase test (the message without its backquotes).
unknown_phase == Raise("ValueError", <<"Phase of water must be either liquid or ice.">>)

RECURSIVE vapor_pressure_elementwise(_, _, _)
vapor_pressure_elementwise(temperature_c, phase, formula) ==
    IF phase = "liquid" THEN
        LET f == liquid_default(formula) IN
        CASE f = Some("MartiMauersberger") ->
                vapor_pressure_elementwise(temperature_c, "liquid",
                                           MartiMauersberger_liquid_target)
          [] f = Some("HylandWexler") -> liquid_HylandWexler(temperature_c)
          [] f = Some("Hardy") -> liquid_Hardy(temperature_c)
          [] f = Some("Preining") -> liquid_Preining(temperature_c)
          [] f = Some("Wexler") -> liquid_Wexler(temperature_c)
          [] f = Some("GoffGratch") -> liquid_GoffGratch(temperature_c)
          [] f = Some("CIMO") -> liquid_CIMO(temperature_c)
          [] f = Some("MagnusTetens") -> liquid_MagnusTetens(temperature_c)
          [] f = Some("Buck") -> liquid_Buck(temperature_c)
          [] f = Some("Buck2") -> liquid_Buck2(temperature_c)
          [] f = Some("WMO") -> liquid_WMO(temperature_c)
          [] f = Some("WMO2000") -> liquid_WMO2000(temperature_c)
          [] f = Some("Sonntag") -> liquid_Sonntag(temperature_c)
          [] f = Some("Bolton") -> liquid_Bolton(temperature_c)
          [] f = Some("Fukuta") ->
                IF fukuta_below_range(temperature_c) THEN NaN
                ELSE liquid_Fukuta_correction(temperature_c,
                        vapor_pressure_elementwise(temperature_c, "liquid",
                                                   Some("GoffGratch")))
          [] f = Some("IAPWS") -> liquid_IAPWS(temperature_c)
          [] f = Some("MurphyKoop") -> liquid_MurphyKoop(temperature_c)
          [] f = Some("McIDAS") -> liquid_McIDAS(temperature_c)
          [] OTHER -> liquid_unknown(f)
    ELSE IF phase = "ice" THEN
        IF ice_uses_water_formula(temperature_c)
        THEN ice_HylandWexler_water(temperature_c)
        ELSE ice_dispatch(temperature_c, ice_resolve(formula))
    ELSE unknown_phase

---------------------------------------------------------------------------
\* vapor_pressure: the wrapper over a sequence of temperatures.

MartiMauersberger_notice ==
    "Marti and Mauersberger don't have a vapor pressure curve over liquid. Using Goff Gratch instead"
IAPWS_notice ==
    "IAPWS does not provide a vapor pressure formulation over ice; use Goff Gratch instead"

\* What the wrapper prints before it maps.
vapor_pressure_print(phase, formula) ==
    IF phase = "liquid" /\ formula = Some("MartiMauersberger") THEN <<MartiMauersberger_notice>>
    ELSE IF phase = "ice" /\ formula = Some("IAPWS") THEN <<IAPWS_notice>>
    ELSE <<>>

\* The formula the wrapper hands to the scalar evaluator.
vapor_pressure_formula(phase, formula) ==
    IF phase = "liquid" /\ formula = Some("MartiMauersberger") THEN Some("GoffGratch")
    ELSE IF phase = "ice" /\ formula = Some("IAPWS") THEN Some("GoffGratch")
    ELSE formula

\* np.vectorize(pyfunc)(...): a size-0 input is refused (no otypes are set);
\* otherwise pyfunc is applied to each element in order and the first
\* exception it raises ends the call; the results form an array.
vectorize(temperature_c, phase, formula) ==
    LET out == [i \in 1..Len(temperature_c) |->
                    vapor_pressure_elementwise(temperature_c[i], phase, formula)]
        bad == {i \in 1..Len(temperature_c) : out[i].kind = "raise"}
    IN  IF Len(temperature_c) = 0
        THEN Raise("ValueError",
                   <<"cannot call vectorize on size 0 inputs unless otypes is set">>)
        ELSE IF bad # {}
        THEN out[CHOOSE i \in bad : \A j \in bad : i <= j]
        ELSE [kind |-> "array", val |-> out]

vapor_pressure_elementwise_print_IAPWS(temperature_c, phase, formula) ==
    IF phase = "ice" /\ formula = Some("IAPWS") THEN <<IAPWS_notice>> ELSE <<>>

\* What one call of the scalar evaluator prints: its body has no print.
vapor_pressure_elementwise_print(temperature_c, phase, formula) == <<>>

\* The elements np.vectorize applies pyfunc to: the first one once to find
\* the output type (no otypes are set), then every element in order; the
\* first application that raises is the last.
vectorize_applied(temperature_c, phase, formula) ==
    LET all == IF Len(temperature_c) = 0 THEN <<>>
               ELSE <<temperature_c[1]>> \o temperature_c
        bad == {i \in 1..Len(all) :
                    vapor_pressure_elementwise(all[i], phase, formula).kind = "raise"}
    IN  IF bad = {} THEN all
        ELSE SubSeq(all, 1, CHOOSE i \in bad : \A j \in bad : i <= j)

RECURSIVE vectorize_print(_, _, _)
\* What the applications of pyfunc print, one after the other.
vectorize_print(applied, phase, formula) ==
    IF applied = <<>> THEN <<>>
    ELSE vapor_pressure_elementwise_print(Head(applied), phase, formula)
            \o vectorize_print(Tail(applied), phase, formula)

vapor_pressure_else_ice(temperature_c, phase, formula) ==
    IF phase = "liquid"
    THEN vectorize(temperature_c, "liquid", vapor_pressure_formula(phase, formula))
    ELSE vectorize(temperature_c, "ice", vapor_pressure_formula("ice", formula))

vapor_pressure(temperature_c, phase, formula) ==
    IF phase \in {"liquid", "ice"}
    THEN vectorize(temperature_c, phase, vapor_pressure_formula(phase, formula))
    ELSE unknown_phase

\* Everything one call of the wrapper prints: its own notice, then what the
\* mapped applications print; nothing when the phase is refused.
vapor_pressure_stdout(temperature_c, phase, formula) ==
    IF phase \in {"liquid", "ice"}
    THEN vapor_pressure_print(phase, formula)
            \o vectorize_print(
                   vectorize_applied(temperature_c, phase,
                                     vapor_pressure_formula(phase, formula)),
                   phase, vapor_pressure_formula(phase, formula))
    ELSE <<>>

---------------------------------------------------------------------------
\* One call of a client.  call is the function called and its arguments,
\* drawn at the start; pc tells whether it has run; outcome is what it
\* returned or raised and stdout what it printed.

\* stack holds the frames of vapor_pressure_elementwise that are active, the
\* innermost last; entered lists the arguments of every entry into that
\* function during the call, in order.
VARIABLES call, pc, outcome, stdout, stack, entered

vars == <<call, pc, outcome, stdout, stack, entered>>

TempSeqs == UNION {[1..n -> Temps] : n \in 0..MaxLen}

ElementwiseCalls ==
    [fn : {"vapor_pressure_elementwise"}, temperature_c : Temps,
     phase : Phases, formula : Formulas]

VaporPressureCalls ==
    [fn : {"vapor_pressure"}, temperature_c : TempSeqs,
     phase : Phases, formula : Formulas]

Pending == [kind |-> "pending"]

Init ==
    /\ call \in ElementwiseCalls \cup VaporPressureCalls
    /\ pc = "call"
    /\ outcome = Pending
    /\ stdout = <<>>
    /\ stack = <<>>
    /\ entered = <<>>

CallElementwise ==
    /\ pc = "call"
    /\ call.fn = "vapor_pressure_elementwise"
    /\ outcome' = vapor_pressure_elementwise(call.temperature_c, call.phase, call.formula)
    /\ stdout' = vapor_pressure_elementwise_print(call.temperature_c, call.phase, call.formula)
    /\ pc' = "done"
    /\ UNCHANGED <<call, stack, entered>>

CallVaporPressure ==
    /\ pc = "call"
    /\ call.fn = "vapor_pressure"
    /\ outcome' = vapor_pressure(call.temperature_c, call.phase, call.formula)
    /\ stdout' = vapor_pressure_stdout(call.temperature_c, call.phase, call.formula)
    /\ pc' = "done"
    /\ UNCHANGED <<call, stack, entered>>

Next == CallElementwise \/ CallVaporPressure

Spec == Init /\ [][Next]_vars

---------------------------------------------------------------------------
\* The scalar evaluator frame by frame: every entry into
\* vapor_pressure_elementwise pushes a frame, every return or raise pops one.

MaxDepth == 4

Args(temperature_c, phase, formula) ==
    [temperature_c |-> temperature_c, phase |-> phase, formula |-> formula]

\* The call a frame makes to vapor_pressure_elementwise itself, if any: the
\* liquid "MartiMauersberger" branch and the else branch of liquid "Fukuta".
nested_call(temperature_c, phase, formula) ==
    IF phase = "liquid" /\ liquid_default(formula) = Some("MartiMauersberger")
    THEN <<Args(temperature_c, "liquid", MartiMauersberger_liquid_target)>>
    ELSE IF /\ phase = "liquid"
            /\ liquid_default(formula) = Some("Fukuta")
            /\ ~fukuta_below_range(temperature_c)
    THEN <<Args(temperature_c, "liquid", Some("GoffGratch"))>>
    ELSE <<>>

\* What a frame does with the outcome of its nested call: "MartiMauersberger"
\* returns it, "Fukuta" multiplies it by the correction polynomial; an
\* exception of the nested call passes through both.
after_nested_call(temperature_c, phase, formula, nested) ==
    IF liquid_default(formula) = Some("Fukuta")
    THEN liquid_Fukuta_correction(temperature_c, nested)
    ELSE nested

Frame(args) == [args |-> args, nested |-> Pending]

\* A frame ends with outcome o: the caller's frame receives it, or the call
\* is over when there is no caller.
Leave(o) ==
    IF Len(stack) = 1
    THEN /\ stack' = <<>>
         /\ outcome' = o
         /\ pc' = "done"
    ELSE /\ stack' = [SubSeq(stack, 1, Len(stack) - 1)
                        EXCEPT ![Len(stack) - 1].nested = o]
         /\ UNCHANGED <<outcome, pc>>

Enter ==
    /\ pc = "call"
    /\ call.fn = "vapor_pressure_elementwise"
    /\ stack = <<>>
    /\ stack' = <<Frame(Args(call.temperature_c, call.phase, call.formula))>>
    /\ entered' = <<Args(call.temperature_c, call.phase, call.formula)>>
    /\ pc' = "running"
    /\ UNCHANGED <<call, outcome, stdout>>

CallNested ==
    /\ pc = "running"
    /\ LET top == stack[Len(stack)]
           n == nested_call(top.args.temperature_c, top.args.phase, top.args.formula)
       IN  /\ top.nested = Pending
           /\ n # <<>>
           /\ Len(stack) < MaxDepth
           /\ stack' = Append(stack, Frame(n[1]))
           /\ entered' = Append(entered, n[1])
    /\ UNCHANGED <<call, pc, outcome, stdout>>

ReturnDirect ==
    /\ pc = "running"
    /\ LET top == stack[Len(stack)]
       IN  /\ top.nested = Pending
           /\ nested_call(top.args.temperature_c, top.args.phase, top.args.formula) = <<>>
           /\ Leave(vapor_pressure_elementwise(top.args.temperature_c, top.args.phase,
                                               top.args.formula))
    /\ UNCHANGED <<call, stdout, entered>>

ReturnAfterNested ==
    /\ pc = "running"
    /\ LET top == stack[Len(stack)]
       IN  /\ top.nested # Pending
           /\ Leave(after_nested_call(top.args.temperature_c, top.args.phase,
                                      top.args.formula, top.nested))
    /\ UNCHANGED <<call, stdout, entered>>

InitSteps == Init /\ call.fn = "vapor_pressure_elementwise"

NextSteps == Enter \/ CallNested \/ ReturnDirect \/ ReturnAfterNested

\* A started call keeps executing: the interpreter runs the next statement of
\* the innermost frame.
SpecSteps == InitSteps /\ [][NextSteps]_vars /\ WF_vars(NextSteps)

---------------------------------------------------------------------------
\* Properties.

Returned(fn) == pc = "done" /\ call.fn = fn
Elementwise == Returned("vapor_pressure_elementwise")
Wrapper == Returned("vapor_pressure")

\* The formula is a string that the claim's set of names contains.
Names(formula, S) == formula # None /\ formula[1] \in S

UnknownFormulaError(o, surface, formula) ==
    /\ o.kind = "raise"
    /\ o.exc = "ValueError"
    /\ Len(o.msg) = 2
    /\ o.msg[1] = "Unknown formula for saturation pressure over " \o surface \o " surface: "
    /\ o.msg[2] = formula[1]

IsUnknownFormulaError(o) ==
    /\ o.kind = "raise"
    /\ o.msg[1] \in {"Unknown formula for saturation pressure over liquid water surface: ",
                     "Unknown formula for saturation pressure over ice surface: "}

\* Formulas with no expression over ice.
NotDefinedForIce == {"Preining", "Bolton", "Fukuta", "Nonexistent", "goffgratch"}

\* C1: for phase "ice" and every temperature strictly above 0 degC the scalar
\* evaluator returns the Hyland-Wexler liquid-water value whatever the
\* formula, and raises nothing.
C1_IceAboveFreezingIsHylandWexlerLiquid ==
    (Elementwise /\ call.phase = "ice" /\ call.temperature_c > 0)
        => outcome = liquid_HylandWexler(call.temperature_c)

\* C2: for phase "ice" and every temperature below 0 degC the scalar evaluator
\* returns the ice expression of the resolved formula (the requested one after
\* aliasing, Goff-Gratch over ice when the formula is None).
C2_IceBelowFreezingIsIceExpression ==
    (Elementwise /\ call.phase = "ice" /\ call.temperature_c < 0)
        => outcome = ice_dispatch(call.temperature_c, ice_resolve(call.formula))

\* C3: for phase "ice" and temperatures below 0 degC a formula that is not
\* defined for ice makes both functions raise a ValueError naming the formula.
C3_IceUnsupportedFormulaRaises ==
    /\ (Elementwise /\ call.phase = "ice" /\ call.temperature_c < 0
            /\ Names(call.formula, NotDefinedForIce))
        => UnknownFormulaError(outcome, "ice", call.formula)
    /\ (Wrapper /\ call.phase = "ice" /\ Len(call.temperature_c) > 0
            /\ (\A i \in 1..Len(call.temperature_c) : call.temperature_c[i] < 0)
            /\ Names(call.formula, NotDefinedForIce))
        => UnknownFormulaError(outcome, "ice", call.formula)

\* C4 as stated: for phase "liquid" and every temperature, a formula string
\* outside the liquid vocabulary raises a ValueError whose message contains
\* the string, and a formula inside the vocabulary raises no error.
C4_LiquidVocabulary_original ==
    (Elementwise /\ call.phase = "liquid" /\ call.formula # None)
        => IF call.formula[1] \in LiquidVocabulary
           THEN outcome.kind # "raise"
           ELSE UnknownFormulaError(outcome, "liquid water", call.formula)

\* C4 as amended: for phase "liquid" and every temperature, a formula string
\* outside the liquid vocabulary raises a ValueError whose message contains
\* the string; a formula inside the vocabulary never raises that error, and
\* raises no error at all for temperatures from -150 degC to 373 degC.
C4_LiquidVocabulary ==
    (Elementwise /\ call.phase = "liquid" /\ call.formula # None)
        => IF call.formula[1] \in LiquidVocabulary
           THEN /\ ~IsUnknownFormulaError(outcome)
                /\ (-15000 <= call.temperature_c /\ call.temperature_c <= 37300)
                        => outcome.kind # "raise"
           ELSE UnknownFormulaError(outcome, "liquid water", call.formula)

C4_Witness ==
    /\ Elementwise /\ call.phase = "liquid" /\ call.formula = Some("Nonexistent")
    /\ UnknownFormulaError(outcome, "liquid water", Some("Nonexistent"))

\* C5: for every phase other than "liquid" and "ice" both functions raise a
\* ValueError, whatever the temperature and the formula, evaluate no formula
\* (the error is the phase error) and print nothing.
C5_UnknownPhaseRaises ==
    (pc = "done" /\ call.phase \notin {"liquid", "ice"})
        => /\ outcome.kind = "raise"
           /\ outcome.exc = "ValueError"
           /\ outcome.msg = <<"Phase of water must be either liquid or ice.">>
           /\ stdout = <<>>

C5_Witness ==
    /\ Wrapper /\ call.phase = "water" /\ call.formula = Some("MartiMauersberger")
    /\ Len(call.temperature_c) > 0
    /\ outcome.kind = "raise"

\* C6: with no formula the scalar evaluator gives the outcome of the explicit
\* default of the surface: "HylandWexler" on liquid, "GoffGratch" on ice.
C6_DefaultFormula ==
    (Elementwise /\ call.formula = None)
        => /\ call.phase = "liquid" =>
                outcome = vapor_pressure_elementwise(call.temperature_c, "liquid",
                                                     Some("HylandWexler"))
           /\ call.phase = "ice" =>
                outcome = vapor_pressure_elementwise(call.temperature_c, "ice",
                                                     Some("GoffGratch"))

C6_Witness ==
    /\ Elementwise /\ call.formula = None /\ call.phase = "liquid"
    /\ outcome.kind = "value"
    /\ outcome = liquid_HylandWexler(call.temperature_c)

C8_MartiMauersbergerIsGoffGratch ==
    (pc = "done" /\ call.phase = "liquid" /\ call.formula = Some("MartiMauersberger"))
        => /\ call.fn = "vapor_pressure_elementwise" =>
                /\ outcome = vapor_pressure_elementwise(call.temperature_c, "liquid",
                                                        Some("GoffGratch"))
                /\ outcome = liquid_GoffGratch(call.temperature_c)
           /\ call.fn = "vapor_pressure" =>
                outcome = vapor_pressure(call.temperature_c, "liquid", Some("GoffGratch"))

C8_Witness ==
    /\ Wrapper /\ call.phase = "liquid" /\ call.formula = Some("MartiMauersberger")
    /\ outcome.kind = "array"
    /\ Len(outcome.val) = 2
    /\ outcome.val[2] = liquid_GoffGratch(call.temperature_c[2])

\* The target of an alias of the ice dispatch.
IceAliasTarget(formula) ==
    IF formula = Some("IAPWS") THEN Some("GoffGratch") ELSE Some("WMO")

IceAliasCall == pc = "done" /\ call.phase = "ice"
                    /\ Names(call.formula, {"IAPWS", "WMO2000"})

\* The outcome of the same call with the alias replaced by its target.
IceAliasSameAsTarget ==
    /\ call.fn = "vapor_pressure_elementwise" =>
         outcome = vapor_pressure_elementwise(call.temperature_c, "ice",
                                              IceAliasTarget(call.formula))
    /\ call.fn = "vapor_pressure" =>
         outcome = vapor_pressure(call.temperature_c, "ice",
                                  IceAliasTarget(call.formula))

\* The temperatures of the call, whichever function it is.
CallTemps ==
    IF call.fn = "vapor_pressure"
    THEN {call.temperature_c[i] : i \in 1..Len(call.temperature_c)}
    ELSE {call.temperature_c}

\* C9 as stated: for phase "ice" and every temperature, "IAPWS" gives the
\* outcome of "GoffGratch" and "WMO2000" that of "WMO", in both functions,
\* and neither alias raises an error.
C9_IceAliases_original ==
    IceAliasCall => (IceAliasSameAsTarget /\ outcome.kind # "raise")

\* C9 as amended: for phase "ice" and every temperature, "IAPWS" gives the
\* outcome of "GoffGratch" and "WMO2000" that of "WMO", in both functions;
\* neither alias raises the unknown-formula error, and neither raises any
\* error when the temperatures are above -273.15 degC and at least one is
\* given.
C9_IceAliases ==
    IceAliasCall =>
        /\ IceAliasSameAsTarget
        /\ ~IsUnknownFormulaError(outcome)
        /\ (CallTemps # {} /\ \A t \in CallTemps : t > -27315)
                => outcome.kind # "raise"

C9_Witness ==
    /\ Elementwise /\ call.phase = "ice" /\ call.formula = Some("IAPWS")
    /\ call.temperature_c > 0
    /\ outcome = ice_GoffGratch(call.temperature_c)
    /\ outcome.kind = "value"

Substituted(phase, formula) ==
    \/ phase = "liquid" /\ formula = Some("MartiMauersberger")
    \/ phase = "ice" /\ formula = Some("IAPWS")

\* C11: one call of vapor_pressure prints the substitution notice exactly
\* once, whatever the number of temperatures, for (liquid, MartiMauersberger)
\* and (ice, IAPWS), and nothing for every other pair ("IAPWS" on liquid
\* included); a call of the scalar evaluator prints nothing; and the call
\* that prints returns or raises what the call with the substituted formula,
\* which prints nothing, returns or raises.
C11_NoticeOnce ==
    /\ Wrapper =>
        /\ stdout = IF call.phase = "liquid" /\ call.formula = Some("MartiMauersberger")
                    THEN <<MartiMauersberger_notice>>
                    ELSE IF call.phase = "ice" /\ call.formula = Some("IAPWS")
                    THEN <<IAPWS_notice>>
                    ELSE <<>>
        /\ Substituted(call.phase, call.formula) =>
              /\ outcome = vapor_pressure(call.temperature_c, call.phase, Some("GoffGratch"))
              /\ vapor_pressure_stdout(call.temperature_c, call.phase, Some("GoffGratch")) = <<>>
    /\ Elementwise => stdout = <<>>

C11_Witness ==
    /\ Wrapper /\ call.phase = "ice" /\ call.formula = Some("IAPWS")
    /\ Len(call.temperature_c) = 2
    /\ stdout = <<IAPWS_notice>>
    /\ outcome.kind = "array"

\* The scalar evaluator raises for some element of the call's sequence, given
\* the formula the wrapper hands over.
SomeElementRaises ==
    \E i \in 1..Len(call.temperature_c) :
        vapor_pressure_elementwise(call.temperature_c[i], call.phase,
            vapor_pressure_formula(call.phase, call.formula)).kind = "raise"

\* The result is the sequence of the scalar evaluator's results, in order.
IsPointwiseResult ==
    /\ outcome.kind = "array"
    /\ Len(outcome.val) = Len(call.temperature_c)
    /\ \A i \in 1..Len(call.temperature_c) :
          outcome.val[i] =
              vapor_pressure_elementwise(call.temperature_c[i], call.phase,
                  vapor_pressure_formula(call.phase, call.formula))

\* C12: for a sequence of temperatures of any length and phase "liquid" or
\* "ice", vapor_pressure returns a result of the same length and order whose
\* i-th entry is the scalar evaluator's result for the i-th temperature and
\* the substituted formula; when the scalar evaluator raises for an element
\* the call raises and returns nothing.
C12_PointwiseLift ==
    (Wrapper /\ call.phase \in {"liquid", "ice"})
        => IF SomeElementRaises THEN outcome.kind = "raise" ELSE IsPointwiseResult

\* The shape of the recursion: at most two frames at a time and two entries
\* in all; the second entry is made only by liquid "MartiMauersberger" or by
\* liquid "Fukuta" at or above -39 degC, and is a call for the same
\* temperature with phase "liquid" and formula "GoffGratch".
DispatchShape ==
    /\ Len(stack) <= 2
    /\ Len(entered) <= 2
    /\ Len(entered) = 2 =>
          /\ entered[2] = Args(entered[1].temperature_c, "liquid", Some("GoffGratch"))
          /\ entered[1].phase = "liquid"
          /\ \/ entered[1].formula = Some("MartiMauersberger")
             \/ entered[1].formula = Some("Fukuta") /\ entered[1].temperature_c >= -3900

\* C14 as stated: the scalar evaluator always ends, by returning a value,
\* returning the not-a-number sentinel or raising ValueError; it re-enters
\* itself at most once, only for liquid "MartiMauersberger" and liquid
\* "Fukuta" at or above -39 degC, always with ("liquid", "GoffGratch"), and
\* the depth of recursion never exceeds 2.
C14_DispatchTerminates_original ==
    /\ [](DispatchShape
            /\ (pc = "done" =>
                  \/ outcome.kind \in {"value", "nan"}
                  \/ outcome.kind = "raise" /\ outcome.exc = "ValueError"))
    /\ <>(pc = "done")

\* C14 as amended: the scalar evaluator always ends, by returning a value,
\* returning the not-a-number sentinel or raising an exception (ValueError,
\* or ZeroDivisionError, OverflowError or TypeError from the arithmetic of an
\* expression); it re-enters itself at most once, only for liquid
\* "MartiMauersberger" and liquid "Fukuta" at or above -39 degC, always with
\* ("liquid", "GoffGratch"), and the depth of recursion never exceeds 2.
C14_DispatchTerminates ==
    /\ [](DispatchShape
            /\ (pc = "done" =>
                  \/ outcome.kind \in {"value", "nan"}
                  \/ /\ outcome.kind = "raise"
                     /\ outcome.exc \in {"ValueError", "ZeroDivisionError",
                                         "OverflowError", "TypeError"}))
    /\ <>(pc = "done")

C14_Witness ==
    /\ pc = "running"
    /\ call.phase = "liquid" /\ call.formula = Some("Fukuta")
    /\ Len(stack) = 2
    /\ stack[1].nested = Pending
    /\ stack[2].args = Args(call.temperature_c, "liquid", Some("GoffGratch"))

=============================================================================
